---- MODULE Spec2Model ----
(***************************************************************************)
(* OIDC bearer-token authentication of the storefront backend:             *)
(* store/auth.py, class OIDCAuthentication.                                *)
(*                                                                         *)
(* One authenticate call is one atomic step.  Time is the wall clock in    *)
(* seconds; tokens, key sets and customers are drawn from small sets.      *)
(* The JOSE library is modelled by what jwt.decode does with the options   *)
(* the code passes: signature first, then nbf, exp, aud, iss; a claim that *)
(* is absent from the payload is not checked unless it is iss.             *)
(*                                                                         *)
(* A signature verifies iff the token was signed by the key pair of the    *)
(* key it is checked against.  Left out: aud given as a list, key data     *)
(* jwk.construct refuses, tokens of another alg than RS256, and claims     *)
(* that are not strings.                                                   *)
(*                                                                         *)
(* The database is a set of Customer rows; a call of it either works or    *)
(* raises.  get_or_create is Django's: a lookup, and when it finds nothing *)
(* an insert under the unique constraint of external_id, followed by a     *)
(* second lookup when the insert is refused.                               *)
(*                                                                         *)
(* Requests handled by several threads at once are modelled step by step:  *)
(* one step per access to the cache, per HTTP exchange and per database    *)
(* statement.                                                              *)
(***************************************************************************)
EXTENDS Integers, Sequences, FiniteSets, TLC

VARIABLES
    now,          \* time.time()
    provider,     \* the JWKS document the provider currently publishes
    env,          \* os.environ: OIDC_ISSUER, OIDC_AUDIENCE, OIDC_JWKS_URL
    class_cache,  \* OIDCAuthentication._jwks_cache, the class attribute
    self_cache,   \* per instance: <<>> or <<d>>, d the instance's own _jwks_cache
    customers,    \* rows of Customer
    last,         \* the latest authenticate call: its input and its outcome
    prev,         \* the call before it, when it succeeded: header and store after
    calls,        \* per request thread: where its authenticate call stands
    served,       \* the key arrays of the JWKS responses that were accepted
    expected,     \* per customer, the latest non-empty claims seen, else the originals
    tables,       \* users, customers and orders as the order views find them
    reply         \* the latest request for an order's notification status

vars == <<now, provider, env, class_cache, self_cache, customers, last, prev,
          calls, served, expected, tables, reply>>

\* what the order views work on
web == <<tables, reply>>

\* what the steps of one call at a time leave alone
others == <<prev, calls, served, expected, tables, reply>>

---------------------------------------------------------------------------
(* Bounds and constants *)

CACHE_TTL == 600

MaxTicks == 2

TickStep == CACHE_TTL

\* time.time() is seconds since 1970: far more than CACHE_TTL
StartTime == 2 * CACHE_TTL

EndTime == StartTime + MaxTicks * TickStep

Instances == {"a1", "a2"}

None == <<>>

NoClaim == "<absent>"

Issuer == "https://idp.example/"

Audience == "app1"

---------------------------------------------------------------------------
(* Signing keys and JWKS documents *)

KeyData(kid, pub) == [kid |-> kid, pub |-> pub]

NoKey == KeyData(NoClaim, NoClaim)

JwksOld == << KeyData("k1", "P1") >>

JwksBoth == << KeyData("k1", "P1"), KeyData("k2", "P2") >>

JwksNew == << KeyData("k2", "P2") >>

\* the provider reissues k1 with another key pair
JwksReissued == << KeyData("k1", "P2") >>

JwksDocs == {JwksOld, JwksBoth, JwksNew, JwksReissued}

FetchOutcomes == {"ok", "neterr", "nokeys"}

---------------------------------------------------------------------------
(* Tokens and Authorization headers *)

Token(kid, signer, iss, aud, exp, nbf, sub, gn, fn, em, ph) ==
    [kid |-> kid, signer |-> signer, iss |-> iss, aud |-> aud, exp |-> exp,
     nbf |-> nbf, sub |-> sub, given_name |-> gn, family_name |-> fn,
     email |-> em, phone_number |-> ph]

NoToken ==
    Token(NoClaim, NoClaim, NoClaim, NoClaim, {}, {}, NoClaim,
          NoClaim, NoClaim, NoClaim, NoClaim)

\* one whitespace-separated part of the header
Word(text) == [kind |-> "word", text |-> text, tok |-> NoToken]

Jwt(tok) == [kind |-> "jwt", text |-> "jwt", tok |-> tok]

Garbage == [kind |-> "garbage", text |-> "not.a.jwt", tok |-> NoToken]

NonUtf8 == [kind |-> "nonutf8", text |-> "\\xe9", tok |-> NoToken]

\* bytes.lower() on the scheme words used here
Lower(text) ==
    CASE text = "Bearer" -> "bearer"
      [] text = "BEARER" -> "bearer"
      [] text = "bearer" -> "bearer"
      [] text = "Basic" -> "basic"
      [] OTHER -> text

---------------------------------------------------------------------------
(* The key cache: a dict keys/last_updated.  An instance reads            *)
(* self._jwks_cache: its own attribute when it has one, else the class's. *)

Cache(keys, last_updated) == [keys |-> keys, last_updated |-> last_updated]

\* what self._jwks_cache evaluates to; c = [cls |-> class dict, own |-> <<>> or <<dict>>]
Resolve(c) == IF c.own = <<>> THEN c.cls ELSE c.own[1]

\* the refresh as keys.extend(jwks['keys']) on the cached list
AssignSelf_merged(c, d) ==
    [c EXCEPT !.own = << Cache(IF Resolve(c).keys = None THEN d.keys
                                ELSE Resolve(c).keys \o d.keys, d.last_updated) >>]

\* self._jwks_cache = {...}: binds the attribute on the instance
AssignSelf(c, d) == [c EXCEPT !.own = <<d>>]

\* line 180 left out
ResetLastUpdated_forgotten(c) == c

\* self._jwks_cache['last_updated'] = 0: writes into the dict the name resolves to
ResetLastUpdated(c) ==
    IF c.own = <<>>
    THEN [c EXCEPT !.cls.last_updated = 0]
    ELSE [c EXCEPT !.own = << [c.own[1] EXCEPT !.last_updated = 0] >>]

\* the result of a helper: the exception raised ("none" when it returns), the
\* value returned, the cache afterwards and the fetch attempts made
Result(exc, msg, keys, key, c, log) ==
    [exc |-> exc, msg |-> msg, keys |-> keys, key |-> key, c |-> c, log |-> log]

Fetch(which, o) == [which |-> which, outcome |-> o]

\* the refresh test with >= for >
NeedsFetch_at_ttl(cur, t) == cur.keys = None \/ t - cur.last_updated >= CACHE_TTL

\* the refresh test of get_jwks
NeedsFetch(cur, t) == cur.keys = None \/ t - cur.last_updated > CACHE_TTL

\* get_jwks: c the cache as this instance sees it, t = time.time(), e the
\* environment, doc the provider's document, which/o the fetch and its outcome
get_jwks(c, t, e, doc, which, o) ==
    LET cur == Resolve(c) IN
    IF NeedsFetch(cur, t)
    THEN IF e.OIDC_JWKS_URL = "" /\ e.OIDC_ISSUER = ""
         THEN Result("AuthenticationFailed", "OIDC_ISSUER not configured",
                     None, NoKey, c, <<>>)
         ELSE CASE o = "ok" ->
                     Result("none", "", doc, NoKey,
                            AssignSelf(c, Cache(doc, t)), <<Fetch(which, o)>>)
                [] o = "nokeys" ->
                     Result("AuthenticationFailed", "Invalid JWKS format",
                            None, NoKey, c, <<Fetch(which, o)>>)
                [] OTHER ->
                     IF cur.keys # None
                     THEN Result("none", "", cur.keys, NoKey, c, <<Fetch(which, o)>>)
                     ELSE Result("RequestException", "JWKS fetch error",
                                 None, NoKey, c, <<Fetch(which, o)>>)
    ELSE Result("none", "", cur.keys, NoKey, c, <<>>)

\* for key_data in keys: if key_data.get('kid') == kid: the first match
KeyIndexes(keys, kid) == {n \in 1..Len(keys) : keys[n].kid = kid}

HasKid(keys, kid) == KeyIndexes(keys, kid) # {}

FirstKey(keys, kid) ==
    keys[CHOOSE n \in KeyIndexes(keys, kid) : \A m \in KeyIndexes(keys, kid) : n <= m]

\* get_key_for_token with the keys fetched before the header is looked at
get_key_for_token_keys_first(c, t, e, doc, part, o1, o2) ==
    LET r1 == get_jwks(c, t, e, doc, "ttl", o1) IN
    IF r1.exc # "none" THEN r1
    ELSE IF part.kind # "jwt" \/ part.tok.kid = NoClaim \/ part.tok.kid = ""
    THEN Result("AuthenticationFailed", "Invalid token header: Token missing key ID (kid)",
                None, NoKey, r1.c, r1.log)
    ELSE IF HasKid(r1.keys, part.tok.kid)
    THEN [r1 EXCEPT !.key = FirstKey(r1.keys, part.tok.kid)]
    ELSE Result("AuthenticationFailed", "Key ID not found in JWKS",
                None, NoKey, r1.c, r1.log)

\* get_key_for_token: part the credentials, o1/o2 the outcomes of the two
\* fetches the call can make
get_key_for_token(c, t, e, doc, part, o1, o2) ==
    IF part.kind # "jwt"
    THEN Result("AuthenticationFailed", "Invalid token header: Error decoding token headers.",
                None, NoKey, c, <<>>)
    ELSE IF part.tok.kid = NoClaim \/ part.tok.kid = ""
    THEN Result("AuthenticationFailed", "Invalid token header: Token missing key ID (kid)",
                None, NoKey, c, <<>>)
    ELSE
      LET kid == part.tok.kid
          r1 == get_jwks(c, t, e, doc, "ttl", o1)
      IN
      IF r1.exc # "none" THEN r1
      ELSE IF HasKid(r1.keys, kid)
      THEN [r1 EXCEPT !.key = FirstKey(r1.keys, kid)]
      ELSE
        LET r2 == get_jwks(ResetLastUpdated(r1.c), t, e, doc, "forced", o2)
            log == r1.log \o r2.log
        IN
        IF r2.exc # "none" THEN [r2 EXCEPT !.log = log]
        ELSE IF HasKid(r2.keys, kid)
        THEN [r2 EXCEPT !.key = FirstKey(r2.keys, kid), !.log = log]
        ELSE Result("AuthenticationFailed", "Key ID not found in JWKS",
                    None, NoKey, r2.c, log)

---------------------------------------------------------------------------
(* Token validation *)

Decoded(exc, msg) == [exc |-> exc, msg |-> msg]

\* jwt_decode with 'verify_signature': False
jwt_decode_no_signature(tok, key, audience, issuer, t) ==
    IF \E n \in tok.nbf : n > t
    THEN Decoded("JWTClaimsError", "The token is not yet valid (nbf)")
    ELSE IF \E x \in tok.exp : x < t
    THEN Decoded("ExpiredSignatureError", "Signature has expired.")
    ELSE IF tok.aud # NoClaim /\ tok.aud # audience
    THEN Decoded("JWTClaimsError", "Invalid audience")
    ELSE IF tok.iss # issuer
    THEN Decoded("JWTClaimsError", "Invalid issuer")
    ELSE Decoded("none", "")

\* jwt_decode with audience and issuer passed in each other's place
jwt_decode_swapped(tok, key, audience, issuer, t) ==
    IF tok.signer # key.pub
    THEN Decoded("JWTError", "Signature verification failed.")
    ELSE IF \E n \in tok.nbf : n > t
    THEN Decoded("JWTClaimsError", "The token is not yet valid (nbf)")
    ELSE IF \E x \in tok.exp : x < t
    THEN Decoded("ExpiredSignatureError", "Signature has expired.")
    ELSE IF tok.aud # NoClaim /\ tok.aud # issuer
    THEN Decoded("JWTClaimsError", "Invalid audience")
    ELSE IF tok.iss # audience
    THEN Decoded("JWTClaimsError", "Invalid issuer")
    ELSE Decoded("none", "")

\* jwt_decode with 'verify_aud': False
jwt_decode_no_aud(tok, key, audience, issuer, t) ==
    IF tok.signer # key.pub
    THEN Decoded("JWTError", "Signature verification failed.")
    ELSE IF \E n \in tok.nbf : n > t
    THEN Decoded("JWTClaimsError", "The token is not yet valid (nbf)")
    ELSE IF \E x \in tok.exp : x < t
    THEN Decoded("ExpiredSignatureError", "Signature has expired.")
    ELSE IF tok.iss # issuer
    THEN Decoded("JWTClaimsError", "Invalid issuer")
    ELSE Decoded("none", "")

\* jwt_decode with 'verify_exp': False
jwt_decode_no_exp(tok, key, audience, issuer, t) ==
    IF tok.signer # key.pub
    THEN Decoded("JWTError", "Signature verification failed.")
    ELSE IF \E n \in tok.nbf : n > t
    THEN Decoded("JWTClaimsError", "The token is not yet valid (nbf)")
    ELSE IF tok.aud # NoClaim /\ tok.aud # audience
    THEN Decoded("JWTClaimsError", "Invalid audience")
    ELSE IF tok.iss # issuer
    THEN Decoded("JWTClaimsError", "Invalid issuer")
    ELSE Decoded("none", "")

\* jose.jwt.decode(token, key, algorithms=['RS256'], options, audience, issuer):
\* the signature, then the claims in the library's order nbf, exp, aud, iss.
\* exp, nbf and aud are checked only when the payload carries them.
jwt_decode(tok, key, audience, issuer, t) ==
    IF tok.signer # key.pub
    THEN Decoded("JWTError", "Signature verification failed.")
    ELSE IF \E n \in tok.nbf : n > t
    THEN Decoded("JWTClaimsError", "The token is not yet valid (nbf)")
    ELSE IF \E x \in tok.exp : x < t
    THEN Decoded("ExpiredSignatureError", "Signature has expired.")
    ELSE IF tok.aud # NoClaim /\ tok.aud # audience
    THEN Decoded("JWTClaimsError", "Invalid audience")
    ELSE IF tok.iss # issuer
    THEN Decoded("JWTClaimsError", "Invalid issuer")
    ELSE Decoded("none", "")

\* the except clauses of validate_token
DecodeFailure(d) ==
    CASE d.exc = "ExpiredSignatureError" -> "Token has expired"
      [] d.exc = "JWTClaimsError" /\ d.msg = "Invalid audience" -> "Token audience invalid"
      [] d.exc = "JWTClaimsError" /\ d.msg = "Invalid issuer" -> "Token issuer invalid"
      [] d.exc = "JWTClaimsError" -> "Token claims verification failed"
      [] OTHER -> "Token validation failed"

validate_token(c, t, e, doc, part, o1, o2) ==
    IF e.OIDC_ISSUER = "" \/ e.OIDC_AUDIENCE = ""
    THEN Result("AuthenticationFailed", "OIDC configuration incomplete",
                None, NoKey, c, <<>>)
    ELSE
      LET r == get_key_for_token(c, t, e, doc, part, o1, o2) IN
      IF r.exc # "none" THEN r
      ELSE
        LET d == jwt_decode(part.tok, r.key, e.OIDC_AUDIENCE, e.OIDC_ISSUER, t) IN
        IF d.exc = "none" THEN r
        ELSE [r EXCEPT !.exc = "AuthenticationFailed", !.msg = DecodeFailure(d)]

---------------------------------------------------------------------------
(* The customer store and the reconciliation of claims with it *)

Null == "<null>"

Customer(id, fn, ln, em, ph, addr) ==
    [external_id |-> id, first_name |-> fn, last_name |-> ln, email |-> em,
     phone |-> ph, address |-> addr]

\* payload.get(name, ''): the claim, or '' when it is absent
GetOrEmpty_null(v) == IF v = NoClaim THEN Null ELSE v

GetOrEmpty(v) == IF v = NoClaim THEN "" ELSE v

\* the truth value of payload.get(name)
Truthy_present(v) == v # NoClaim

Truthy(v) == v # NoClaim /\ v # ""

\* the row get_or_create inserts: the defaults of lines 75-80, address NULL
NewCustomer(tok) ==
    Customer(tok.sub, GetOrEmpty(tok.given_name), GetOrEmpty(tok.family_name),
             GetOrEmpty(tok.email), GetOrEmpty(tok.phone_number), Null)

ByExternalId(store, sub) == {x \in store : x.external_id = sub}

\* lines 85-96 without the comparison with the stored value
UpdateFields_uncompared(cust, tok) ==
    {f \in {"first_name"} : Truthy(tok.given_name)}
    \cup {f \in {"last_name"} : Truthy(tok.family_name)}
    \cup {f \in {"email"} : Truthy(tok.email)}
    \cup {f \in {"phone"} : Truthy(tok.phone_number)}

\* the fields lines 85-96 change, as the set update_fields
UpdateFields(cust, tok) ==
    {f \in {"first_name"} : Truthy(tok.given_name) /\ cust.first_name # tok.given_name}
    \cup {f \in {"last_name"} : Truthy(tok.family_name) /\ cust.last_name # tok.family_name}
    \cup {f \in {"email"} : Truthy(tok.email) /\ cust.email # tok.email}
    \cup {f \in {"phone"} : Truthy(tok.phone_number) /\ cust.phone # tok.phone_number}

\* the customer found gets the values get_or_create would insert
Updated_overwritten(cust, tok) ==
    [NewCustomer(tok) EXCEPT !.address = cust.address]

Updated(cust, tok) ==
    LET u == UpdateFields(cust, tok) IN
    [cust EXCEPT !.first_name = IF "first_name" \in u THEN tok.given_name ELSE @,
                 !.last_name = IF "last_name" \in u THEN tok.family_name ELSE @,
                 !.email = IF "email" \in u THEN tok.email ELSE @,
                 !.phone = IF "phone" \in u THEN tok.phone_number ELSE @]

\* what the database does with the statements of one call: it works, or
\* get_or_create raises, or save raises
DbOutcomes == {"ok", "get_or_create_error", "save_error"}

\* a save that drops the row
Save_deleted(store, cust, new, u) ==
    IF u = {} THEN store ELSE store \ {cust}

\* customer.save(update_fields=u): the row of the customer gets the fields u
\* of the instance in memory
Save(store, cust, new, u) ==
    IF u = {} THEN store ELSE (store \ {cust}) \cup {new}

\* Customer.objects.get_or_create and the update of a customer found: the
\* exception raised ("none" when there is none), the customer returned, the
\* store afterwards, created, and the fields saved
Reconcile(store, tok, db) ==
    LET found == ByExternalId(store, tok.sub) IN
    IF db = "get_or_create_error"
    THEN [exc |-> "DatabaseError", customer |-> NewCustomer(tok), store |-> store,
          created |-> FALSE, saved |-> {}]
    ELSE IF found = {}
    THEN [exc |-> "none", customer |-> NewCustomer(tok),
          store |-> store \cup {NewCustomer(tok)}, created |-> TRUE, saved |-> {}]
    ELSE LET cust == CHOOSE x \in found : TRUE
             u == UpdateFields(cust, tok)
         IN IF u # {} /\ db = "save_error"
            THEN [exc |-> "DatabaseError", customer |-> Updated(cust, tok),
                  store |-> store, created |-> FALSE, saved |-> {}]
            ELSE [exc |-> "none", customer |-> Updated(cust, tok),
                  store |-> Save(store, cust, Updated(cust, tok), u),
                  created |-> FALSE, saved |-> u]

\* the insert without the unique constraint
UniqueViolation_unconstrained(store, sub) == FALSE

\* external_id is unique: the insert of a second row with it is refused
UniqueViolation(store, sub) == ByExternalId(store, sub) # {}

\* UPDATE of the fields u of the customer's row with the values of new
SaveFields(store, new, u) ==
    {IF x.external_id # new.external_id THEN x
     ELSE [x EXCEPT !.first_name = IF "first_name" \in u THEN new.first_name ELSE @,
                    !.last_name = IF "last_name" \in u THEN new.last_name ELSE @,
                    !.email = IF "email" \in u THEN new.email ELSE @,
                    !.phone = IF "phone" \in u THEN new.phone ELSE @] : x \in store}

---------------------------------------------------------------------------
(* authenticate *)

Outcome(kind, wrap, reason, customer, token, store, c, log, created, saved) ==
    [kind |-> kind, wrap |-> wrap, reason |-> reason, customer |-> customer,
     token |-> token, store |-> store, c |-> c, log |-> log,
     created |-> created, saved |-> saved]

\* the except clauses of authenticate, lines 103-111
Wrapped(r) ==
    IF r.exc = "RequestException"
    THEN <<"Error fetching JWKS", "">>
    ELSE <<"Authentication failed: ", r.msg>>

\* line 58 without the scheme test
NoOpinion_header_only(hdr) == hdr = <<>>

\* line 61 as a test for missing credentials only
Malformed_too_short(hdr) == Len(hdr) < 2

\* line 58: no header, or another scheme
NoOpinion(hdr) == hdr = <<>> \/ Lower(hdr[1].text) # "bearer"

\* line 61
Malformed(hdr) == Len(hdr) # 2

\* hdr: the parts of the Authorization header after split(); db: what the
\* database does
authenticate(c, t, e, doc, store, hdr, o1, o2, db) ==
    IF NoOpinion(hdr)
    THEN Outcome("None", "", "", {}, {}, store, c, <<>>, FALSE, {})
    ELSE IF Malformed(hdr)
    THEN Outcome("AuthenticationFailed", "",
                 "Invalid token header. No credentials provided.",
                 {}, {}, store, c, <<>>, FALSE, {})
    ELSE IF hdr[2].kind = "nonutf8"
    THEN Outcome("UnicodeDecodeError", "", "", {}, {}, store, c, <<>>, FALSE, {})
    ELSE
      LET r == validate_token(c, t, e, doc, hdr[2], o1, o2) IN
      IF r.exc # "none"
      THEN Outcome("AuthenticationFailed", Wrapped(r)[1], Wrapped(r)[2],
                   {}, {}, store, r.c, r.log, FALSE, {})
      ELSE IF ~Truthy(hdr[2].tok.sub)
      THEN Outcome("AuthenticationFailed", "Authentication failed: ",
                   "Token missing sub claim", {}, {}, store, r.c, r.log, FALSE, {})
      ELSE
        LET rec == Reconcile(store, hdr[2].tok, db) IN
        IF rec.exc # "none"
        THEN Outcome("AuthenticationFailed", "Authentication failed: ",
                     "database error", {}, {}, store, r.c, r.log, FALSE, {})
        ELSE Outcome("Success", "", "", {rec.customer}, {hdr[2]}, rec.store,
                     r.c, r.log, rec.created, rec.saved)

---------------------------------------------------------------------------
(* The inputs: environments, tokens, headers *)

EnvOf(iss, aud, url) ==
    [OIDC_ISSUER |-> iss, OIDC_AUDIENCE |-> aud, OIDC_JWKS_URL |-> url]

JwksUrl == "https://idp.example/certs"

Configured == EnvOf(Issuer, Audience, JwksUrl)

Envs == {Configured, EnvOf(Issuer, "", JwksUrl), EnvOf("", Audience, "")}

\* exp values: one that the clock reaches and passes, one it never reaches
ExpSoon == StartTime + TickStep

ExpFar == EndTime + TickStep

Kids == {"k1", "k2"}

KeyPairs == {"P1", "P2"}

\* a token whose claims are all in order
GoodToken(kid, signer, sub) ==
    Token(kid, signer, Issuer, Audience, {ExpFar}, {}, sub,
          "Ann", NoClaim, NoClaim, NoClaim)

\* tokens that differ in kid and signing key pair only
KeyTokens == {GoodToken(k, p, "u1") : k \in Kids \cup {NoClaim}, p \in KeyPairs}

\* tokens of kid k1 signed by P1, differing in the claims
ClaimTokens ==
    {Token("k1", "P1", iss, aud, exp, {}, sub, "Ann", NoClaim, NoClaim, NoClaim) :
        iss \in {Issuer, "https://evil.example/"},
        aud \in {Audience, "app2", NoClaim},
        exp \in {{ExpFar}, {ExpSoon}, {}},
        sub \in {"u1", ""}}

NbfTokens ==
    {Token("k1", "P1", Issuer, Audience, {ExpFar}, {nbf}, "u1",
           "Ann", NoClaim, NoClaim, NoClaim) : nbf \in {StartTime, ExpFar}}

Tokens == KeyTokens \cup ClaimTokens \cup NbfTokens

Credentials == {Jwt(tok) : tok \in Tokens} \cup {Garbage, NonUtf8}

\* the headers that do not carry exactly scheme and credentials
OddHeaders ==
    { <<>>, <<Word("Basic"), Word("dXNlcjpwYXNz")>>, <<Word("Basic")>>,
      <<Jwt(GoodToken("k1", "P1", "u1"))>>,
      <<Word("Token"), Jwt(GoodToken("k1", "P1", "u1"))>>,
      <<Word("Bearer")>>, <<Word("bearer")>>,
      <<Word("Bearer"), Jwt(GoodToken("k1", "P1", "u1")), Word("x")>>,
      <<Word("BEARER"), Word("a"), Word("b"), Word("c")>> }

BearerHeaders ==
    {<<Word("Bearer"), cr>> : cr \in Credentials}
    \cup {<<Word(w), Jwt(GoodToken("k1", "P1", "u1"))>> : w \in {"bearer", "BEARER"}}

Headers == OddHeaders \cup BearerHeaders

\* the headers of the runs with several authenticator instances
KeyHeaders == {<<Word("Bearer"), Jwt(tok)>> : tok \in KeyTokens}

---------------------------------------------------------------------------
(* The state machine *)

Existing == Customer("u0", "Old", "Name", "old@example.com", "+9876543210", "12 Elm St")

Snapshot(cc, sc, st) == [class_cache |-> cc, self_cache |-> sc, customers |-> st]

Call(phase, i, hdr, db, pre, out) ==
    [phase |-> phase, inst |-> i, hdr |-> hdr, db |-> db, pre |-> pre, out |-> out]

NoCall ==
    Call("idle", "a1", <<>>, "ok", Snapshot(Cache(None, 0), <<>>, {}),
         Outcome("", "", "", {}, {}, {}, [cls |-> Cache(None, 0), own |-> <<>>],
                 <<>>, FALSE, {}))

\* no users, customers or orders
NoTables == [customers |-> <<>>, orders |-> <<>>, staff |-> {}]

Anonymous == [kind |-> "anonymous", id |-> 0, is_staff |-> FALSE]

\* no request for an order
NoReply == [phase |-> "idle", principal |-> Anonymous, pk |-> 0, status |-> ""]

\* no successful call to remember
NoPrev == [hdr |-> <<>>, customers |-> {}, wrote |-> FALSE]

Threads == {"t1", "t2"}

\* a thread that handles no request
IdleCall ==
    [pc |-> "idle", inst |-> "a1", tok |-> NoToken, round |-> 0, keys |-> None,
     row |-> {}, created |-> FALSE, conflict |-> FALSE, kind |-> ""]

Init ==
    /\ now = StartTime
    /\ provider \in JwksDocs
    /\ env \in Envs
    /\ class_cache = Cache(None, 0)
    /\ self_cache = [i \in Instances |-> <<>>]
    /\ customers = {Existing}
    /\ last = NoCall
    /\ prev = NoPrev
    /\ calls = [th \in Threads |-> IdleCall]
    /\ served = {}
    /\ expected = {Existing}
    /\ tables = NoTables
    /\ reply = NoReply

\* the clock advances between calls
Tick ==
    /\ last.phase = "idle"
    /\ now < EndTime
    /\ now' = now + TickStep
    /\ UNCHANGED <<provider, env, class_cache, self_cache, customers, last>>
    /\ UNCHANGED others

\* the provider publishes another key set
Rotate(doc) ==
    /\ last.phase = "idle"
    /\ doc # provider
    /\ provider' = doc
    /\ UNCHANGED <<now, env, class_cache, self_cache, customers, last>>
    /\ UNCHANGED others

\* the view instance i has of the cache
View(i) == [cls |-> class_cache, own |-> self_cache[i]]

\* instance i handles a request with Authorization header hdr; o1 and o2 are
\* what the JWKS endpoint answers to the fetches the call makes, db what the
\* database does
Authenticate(i, hdr, o1, o2, db) ==
    LET out == authenticate(View(i), now, env, provider, customers, hdr, o1, o2, db) IN
    /\ last.phase = "idle"
    /\ class_cache' = out.c.cls
    /\ self_cache' = [self_cache EXCEPT ![i] = out.c.own]
    /\ customers' = out.store
    /\ last' = Call("done", i, hdr, db, Snapshot(class_cache, self_cache, customers), out)
    /\ UNCHANGED <<now, provider, env>>
    /\ UNCHANGED others

\* the caller takes the result; the next request can come
Return ==
    /\ last.phase = "done"
    /\ last' = NoCall
    /\ UNCHANGED <<now, provider, env, class_cache, self_cache, customers>>
    /\ UNCHANGED others

\* one authenticator instance, every header
Next ==
    \/ Tick
    \/ \E doc \in JwksDocs : Rotate(doc)
    \/ \E hdr \in Headers, o1, o2 \in FetchOutcomes :
          Authenticate("a1", hdr, o1, o2, "ok")
    \/ Return

Spec == Init /\ [][Next]_vars

\* several authenticator instances of one process
NextShared ==
    \/ Tick
    \/ \E doc \in JwksDocs : Rotate(doc)
    \/ \E i \in Instances, hdr \in KeyHeaders, o1, o2 \in FetchOutcomes :
          Authenticate(i, hdr, o1, o2, "ok")
    \/ Return

SpecShared == Init /\ [][NextShared]_vars

---------------------------------------------------------------------------
(* The reconciliation of profiles: one instance, a provider that works, and *)
(* tokens that differ in the subject and the profile claims                 *)

NewName == "Lee"

NewEmail == "ann@example.com"

NewPhone == "+1234567890"

\* valid tokens of the customer that exists and of one that does not; the
\* claims family_name, email and phone_number are all absent or all there
ProfileTokens ==
    {Token("k1", "P1", Issuer, Audience, {ExpFar}, {}, sub, gn,
           rest[1], rest[2], rest[3]) :
        sub \in {"u0", "u1"},
        gn \in {NoClaim, "", "Ann"},
        rest \in {<<NoClaim, NoClaim, NoClaim>>, <<NewName, NewEmail, NewPhone>>,
                  <<"", NewEmail, NoClaim>>}}

ProfileHeaders == {<<Word("Bearer"), Jwt(tok)>> : tok \in ProfileTokens}

\* the first names the admin site gives a customer
EditedNames == {"Zed"}

\* the value of a field after a claim was seen: the claim when it is not
\* empty, else the value before
Latest(before, claim) == IF claim = NoClaim \/ claim = "" THEN before ELSE claim

\* the customers after a success for token tok, by the claims seen so far
Expect(rows, tok) ==
    IF ByExternalId(rows, tok.sub) = {}
    THEN rows \cup {Customer(tok.sub, Latest("", tok.given_name),
                             Latest("", tok.family_name), Latest("", tok.email),
                             Latest("", tok.phone_number), Null)}
    ELSE {IF x.external_id # tok.sub THEN x
          ELSE [x EXCEPT !.first_name = Latest(@, tok.given_name),
                         !.last_name = Latest(@, tok.family_name),
                         !.email = Latest(@, tok.email),
                         !.phone = Latest(@, tok.phone_number)] : x \in rows}

InitProfile ==
    /\ Init
    /\ provider = JwksOld
    /\ env = Configured

\* the caller takes the result; a success is remembered with the store it left
Remember ==
    /\ last.phase = "done"
    /\ prev' = IF last.out.kind = "Success"
                THEN [hdr |-> last.hdr, customers |-> customers,
                      wrote |-> last.out.created \/ last.out.saved # {}]
                ELSE NoPrev
    /\ expected' = IF last.out.kind = "Success"
                    THEN Expect(expected, last.hdr[2].tok) ELSE expected
    /\ last' = NoCall
    /\ UNCHANGED <<now, provider, env, class_cache, self_cache, customers,
                   calls, served>>
    /\ UNCHANGED web

\* a customer is edited on the admin site, between two requests
EditProfile(cust, fn) ==
    /\ last.phase = "idle"
    /\ cust \in customers
    /\ cust.first_name # fn
    /\ customers' = (customers \ {cust}) \cup {[cust EXCEPT !.first_name = fn]}
    /\ expected' = {IF x.external_id = cust.external_id
                     THEN [x EXCEPT !.first_name = fn] ELSE x : x \in expected}
    /\ UNCHANGED <<now, provider, env, class_cache, self_cache, last, prev,
                   calls, served>>
    /\ UNCHANGED web

NextProfile ==
    \/ \E hdr \in ProfileHeaders, db \in DbOutcomes :
          Authenticate("a1", hdr, "ok", "ok", db)
    \/ Remember
    \/ \E cust \in customers, fn \in EditedNames : EditProfile(cust, fn)

SpecProfile == InitProfile /\ [][NextProfile]_vars

---------------------------------------------------------------------------
(* The order views.  request.user is what the authentication classes gave:
   nobody, a Django user, or the Customer that OIDCAuthentication returns.
   A customer belongs to the user whose id its external_id spells. *)

UserIds == {1, 2, 3}

CustomerPks == {1, 2}

OrderPks == {1, 2}

\* the pk of no order
MissingPk == 99999

\* the staff users there may be
StaffIds == {3}

\* tables.customers[c] is the id of the user customer c belongs to,
\* tables.orders[o] the pk of the customer of order o
Assignments ==
    {[customers |-> cs, orders |-> os, staff |-> st] :
        cs \in {f \in [CustomerPks -> UserIds] : \A a, b \in CustomerPks : f[a] = f[b] => a = b},
        os \in [OrderPks -> CustomerPks],
        st \in SUBSET StaffIds}

User(tb, id) == [kind |-> "user", id |-> id, is_staff |-> id \in tb.staff]

\* a Customer as request.user: it has an id, and neither is_authenticated
\* nor is_staff
CustomerPrincipal(pk) == [kind |-> "customer", id |-> pk, is_staff |-> FALSE]

Principals(tb) ==
    {Anonymous} \cup {User(tb, id) : id \in UserIds}
    \cup {CustomerPrincipal(pk) : pk \in CustomerPks}

\* permissions.IsAuthenticated: request.user and request.user.is_authenticated
IsAuthenticated(principal) ==
    CASE principal.kind = "anonymous" -> "denied"
      [] principal.kind = "user" -> "granted"
      [] OTHER -> "AttributeError"

\* OrderNotificationStatusView.get, with the permission check that runs
\* before it; OrderDetailView.get makes the same checks
OrderNotificationStatusView_get(tb, principal, pk) ==
    IF IsAuthenticated(principal) = "denied" THEN "401"
    ELSE IF IsAuthenticated(principal) = "AttributeError" THEN "500"
    ELSE IF pk \notin DOMAIN tb.orders THEN "404"
    ELSE IF principal.id # tb.orders[pk] /\ ~principal.is_staff THEN "403"
    ELSE "200"

InitOrders ==
    /\ now = StartTime
    /\ provider = JwksOld
    /\ env = Configured
    /\ class_cache = Cache(None, 0)
    /\ self_cache = [i \in Instances |-> <<>>]
    /\ customers = {Existing}
    /\ last = NoCall
    /\ prev = NoPrev
    /\ calls = [th \in Threads |-> IdleCall]
    /\ served = {}
    /\ expected = {Existing}
    /\ tables \in Assignments
    /\ reply = NoReply

\* principal asks for the notification status of order pk
GetStatus(principal, pk) ==
    /\ reply.phase = "idle"
    /\ reply' = [phase |-> "done", principal |-> principal, pk |-> pk,
                 status |-> OrderNotificationStatusView_get(tables, principal, pk)]
    /\ UNCHANGED <<now, provider, env, class_cache, self_cache, customers, last,
                   prev, calls, served, expected, tables>>

\* the client takes the response
TakeReply ==
    /\ reply.phase = "done"
    /\ reply' = NoReply
    /\ UNCHANGED <<now, provider, env, class_cache, self_cache, customers, last,
                   prev, calls, served, expected, tables>>

NextOrders ==
    \/ \E principal \in Principals(tables), pk \in OrderPks \cup {MissingPk} :
          GetStatus(principal, pk)
    \/ TakeReply

SpecOrders == InitOrders /\ [][NextOrders]_vars

---------------------------------------------------------------------------
(* Tokens and key documents of every kind against a store that changes: the
   provider also serves documents that list one kid twice, the tokens lack
   the sub or carry the sub of the customer on file, and the database may
   fail. *)

\* a document with two entries under kid k1, and the same entries reversed
JwksTwins == << KeyData("k1", "P1"), KeyData("k1", "P2") >>

JwksTwinsReversed == << KeyData("k1", "P2"), KeyData("k1", "P1") >>

StoreDocs == {JwksOld, JwksNew, JwksTwins, JwksTwinsReversed}

\* tokens in order but for the sub, for the customer on file and a new one
SubTokens ==
    {Token("k1", "P1", Issuer, Audience, {ExpFar}, {}, sub, gn,
           NoClaim, NoClaim, NoClaim) :
        sub \in {"u0", "u1", "", NoClaim}, gn \in {"Ann", NoClaim}}

\* tokens of the customer on file that fail at one step or need the other key
FailingTokens ==
    {Token(NoClaim, "P1", Issuer, Audience, {ExpFar}, {}, "u0", "Ann",
           NoClaim, NoClaim, NoClaim),
     Token("k1", "P2", Issuer, Audience, {ExpFar}, {}, "u0", "Ann",
           NoClaim, NoClaim, NoClaim),
     Token("k2", "P2", Issuer, Audience, {ExpFar}, {}, "u0", "Ann",
           NoClaim, NoClaim, NoClaim),
     Token("k1", "P1", Issuer, "app2", {ExpFar}, {}, "u0", "Ann",
           NoClaim, NoClaim, NoClaim),
     Token("k1", "P1", Issuer, Audience, {ExpSoon}, {}, "u0", "Ann",
           NoClaim, NoClaim, NoClaim)}

StoreHeaders ==
    { <<>>, <<Word("Basic"), Word("dXNlcjpwYXNz")>>, <<Word("Bearer")>>,
      <<Word("Bearer"), Garbage>> }
    \cup {<<Word("Bearer"), Jwt(tok)>> : tok \in SubTokens \cup FailingTokens}

InitStore ==
    /\ now = StartTime
    /\ provider \in StoreDocs
    /\ env = Configured
    /\ class_cache = Cache(None, 0)
    /\ self_cache = [i \in Instances |-> <<>>]
    /\ customers = {Existing}
    /\ last = NoCall
    /\ prev = NoPrev
    /\ calls = [th \in Threads |-> IdleCall]
    /\ served = {}
    /\ expected = {Existing}
    /\ tables = NoTables
    /\ reply = NoReply

NextStore ==
    \/ Tick
    \/ \E doc \in StoreDocs : Rotate(doc)
    \/ \E hdr \in StoreHeaders, o1, o2 \in FetchOutcomes, db \in DbOutcomes :
          Authenticate("a1", hdr, o1, o2, db)
    \/ Return

SpecStore == InitStore /\ [][NextStore]_vars

---------------------------------------------------------------------------
(* Requests handled by several threads at once.  Each thread runs          *)
(* authenticate for a Bearer token with a kid; a step is one access to the *)
(* cache, one HTTP exchange or one database statement.                     *)

\* tokens of one new subject: two that differ in given_name, one of kid k2
ConcurrentTokens ==
    {GoodToken("k1", "P1", "u1"),
     Token("k1", "P1", Issuer, Audience, {ExpFar}, {}, "u1",
           "Bob", NoClaim, NoClaim, NoClaim),
     GoodToken("k2", "P2", "u1")}

\* the authenticator that handles the requests of a thread: one that both
\* threads use, or for the second thread one of its own
InstancesOf(th) == IF th = "t1" THEN {"a1"} ELSE Instances

InitConcurrent ==
    /\ Init
    /\ provider = JwksOld
    /\ env = Configured

\* thread th goes on; the state outside the cache is left alone
Goes(th, call) == calls' = [calls EXCEPT ![th] = call]

Ends(th, kind) == Goes(th, [calls[th] EXCEPT !.pc = "done", !.kind = kind])

\* lines 56-64, 196-202, 164-172: thread th takes a request for instance i
\* and is about to call get_jwks
Start(th, i, tok) ==
    /\ calls[th].pc = "idle"
    /\ Goes(th, [IdleCall EXCEPT !.pc = "check", !.inst = i, !.tok = tok, !.round = 1])
    /\ UNCHANGED <<now, provider, env, class_cache, self_cache, customers, last,
                   prev, served>>
    /\ UNCHANGED <<expected, tables, reply>>

\* lines 118-138: the refresh test; when it says so the request to the JWKS
\* endpoint goes out
CheckCache(th) ==
    /\ calls[th].pc = "check"
    /\ Goes(th, [calls[th] EXCEPT !.pc =
            IF NeedsFetch(Resolve(View(calls[th].inst)), now)
            THEN "fetching" ELSE "read"])
    /\ UNCHANGED <<now, provider, env, class_cache, self_cache, customers, last,
                   prev, served>>
    /\ UNCHANGED <<expected, tables, reply>>

\* lines 138-155: the response is there, with outcome o
Respond(th, o) ==
    LET i == calls[th].inst
        c == View(i)
    IN
    /\ calls[th].pc = "fetching"
    /\ CASE o = "ok" ->
              /\ class_cache' = AssignSelf(c, Cache(provider, now)).cls
              /\ self_cache' = [self_cache EXCEPT
                                   ![i] = AssignSelf(c, Cache(provider, now)).own]
              /\ served' = served \cup {provider}
              /\ Goes(th, [calls[th] EXCEPT !.pc = "read"])
         [] o = "nokeys" ->
              /\ Ends(th, "AuthenticationFailed")
              /\ UNCHANGED <<class_cache, self_cache, served>>
         [] OTHER ->
              /\ IF Resolve(c).keys # None
                 THEN Goes(th, [calls[th] EXCEPT !.pc = "read"])
                 ELSE Ends(th, "AuthenticationFailed")
              /\ UNCHANGED <<class_cache, self_cache, served>>
    /\ UNCHANGED <<now, provider, env, customers, last, prev>>
    /\ UNCHANGED <<expected, tables, reply>>

\* line 157: return self._jwks_cache['keys']
ReadKeys(th) ==
    /\ calls[th].pc = "read"
    /\ Goes(th, [calls[th] EXCEPT !.pc = "lookup",
                                  !.keys = Resolve(View(calls[th].inst)).keys])
    /\ UNCHANGED <<now, provider, env, class_cache, self_cache, customers, last,
                   prev, served>>
    /\ UNCHANGED <<expected, tables, reply>>

\* lines 173-189 and 204-234, 69-71: the kid is looked up in the keys
\* returned; a key found verifies the token; after the first miss line 180
\* resets last_updated and get_jwks is called again
Lookup(th) ==
    LET call == calls[th]
        i == call.inst
        d == jwt_decode(call.tok, FirstKey(call.keys, call.tok.kid),
                        env.OIDC_AUDIENCE, env.OIDC_ISSUER, now)
    IN
    /\ call.pc = "lookup"
    /\ IF HasKid(call.keys, call.tok.kid)
       THEN /\ IF d.exc = "none" /\ Truthy(call.tok.sub)
               THEN Goes(th, [call EXCEPT !.pc = "get"])
               ELSE Ends(th, "AuthenticationFailed")
            /\ UNCHANGED <<class_cache, self_cache>>
       ELSE IF call.round = 1
       THEN /\ class_cache' = ResetLastUpdated(View(i)).cls
            /\ self_cache' = [self_cache EXCEPT ![i] = ResetLastUpdated(View(i)).own]
            /\ Goes(th, [call EXCEPT !.pc = "check", !.round = 2])
       ELSE /\ Ends(th, "AuthenticationFailed")
            /\ UNCHANGED <<class_cache, self_cache>>
    /\ UNCHANGED <<now, provider, env, customers, last, prev, served>>
    /\ UNCHANGED <<expected, tables, reply>>

\* get_or_create, the lookup: SELECT ... WHERE external_id = sub
GetCustomer(th) ==
    LET found == ByExternalId(customers, calls[th].tok.sub) IN
    /\ calls[th].pc = "get"
    /\ IF found = {}
       THEN Goes(th, [calls[th] EXCEPT !.pc = "insert"])
       ELSE Goes(th, [calls[th] EXCEPT !.pc = "update",
                                      !.row = {CHOOSE x \in found : TRUE}])
    /\ UNCHANGED <<now, provider, env, class_cache, self_cache, customers, last,
                   prev, served>>
    /\ UNCHANGED <<expected, tables, reply>>

\* get_or_create, the INSERT: refused when another request has inserted the
\* subject since the lookup, and then the row of that request is fetched
Insert(th) ==
    LET tok == calls[th].tok IN
    /\ calls[th].pc = "insert"
    /\ IF UniqueViolation(customers, tok.sub)
       THEN /\ Goes(th, [calls[th] EXCEPT !.pc = "update", !.conflict = TRUE,
                           !.row = {CHOOSE x \in ByExternalId(customers, tok.sub) : TRUE}])
            /\ UNCHANGED customers
       ELSE /\ customers' = customers \cup {NewCustomer(tok)}
            /\ Goes(th, [calls[th] EXCEPT !.pc = "done", !.kind = "Success",
                           !.created = TRUE, !.row = {NewCustomer(tok)}])
    /\ UNCHANGED <<now, provider, env, class_cache, self_cache, last, prev, served>>
    /\ UNCHANGED <<expected, tables, reply>>

\* lines 83-101: the customer in memory is compared with the claims and the
\* fields that differ are saved
Update(th) ==
    LET tok == calls[th].tok
        cust == CHOOSE x \in calls[th].row : TRUE
        u == UpdateFields(cust, tok)
    IN
    /\ calls[th].pc = "update"
    /\ customers' = SaveFields(customers, Updated(cust, tok), u)
    /\ Goes(th, [calls[th] EXCEPT !.pc = "done", !.kind = "Success",
                                  !.row = {Updated(cust, tok)}])
    /\ UNCHANGED <<now, provider, env, class_cache, self_cache, last, prev, served>>
    /\ UNCHANGED <<expected, tables, reply>>

\* the response is sent; the thread takes the next request
Finish(th) ==
    /\ calls[th].pc = "done"
    /\ Goes(th, IdleCall)
    /\ UNCHANGED <<now, provider, env, class_cache, self_cache, customers, last,
                   prev, served>>
    /\ UNCHANGED <<expected, tables, reply>>

NextConcurrent ==
    \/ \E doc \in {JwksOld, JwksNew} : Rotate(doc)
    \/ \E th \in Threads, tok \in ConcurrentTokens :
          \E i \in InstancesOf(th) : Start(th, i, tok)
    \/ \E th \in Threads : CheckCache(th)
    \/ \E th \in Threads, o \in FetchOutcomes : Respond(th, o)
    \/ \E th \in Threads : ReadKeys(th)
    \/ \E th \in Threads : Lookup(th)
    \/ \E th \in Threads : GetCustomer(th)
    \/ \E th \in Threads : Insert(th)
    \/ \E th \in Threads : Update(th)
    \/ \E th \in Threads : Finish(th)

SpecConcurrent == InitConcurrent /\ [][NextConcurrent]_vars

---------------------------------------------------------------------------
(* What the properties read of the latest call *)

Done == last.phase = "done"

\* the header is a Bearer scheme word followed by one JWT
BearerJwt ==
    /\ Len(last.hdr) = 2
    /\ last.hdr[1].text \in {"Bearer", "bearer", "BEARER"}
    /\ last.hdr[2].kind = "jwt"

SentToken == last.hdr[2].tok

Succeeded == last.out.kind = "Success"

Failed == last.out.kind = "AuthenticationFailed"

\* the cache the calling instance saw before the call, and the one it sees after
CacheBefore ==
    Resolve([cls |-> last.pre.class_cache, own |-> last.pre.self_cache[last.inst]])

CacheAfter == Resolve(View(last.inst))

\* key set ks holds, first under the token's kid, the key that signed the token
SignedBy(ks, tok) == HasKid(ks, tok.kid) /\ FirstKey(ks, tok.kid).pub = tok.signer

FetchCount == Len(last.out.log)

ForcedCount == Cardinality({n \in 1..Len(last.out.log) : last.out.log[n].which = "forced"})

TtlCount == Cardinality({n \in 1..Len(last.out.log) : last.out.log[n].which = "ttl"})

AllFetchesOk == \A n \in 1..Len(last.out.log) : last.out.log[n].outcome = "ok"

---------------------------------------------------------------------------
(* C1 *)

\* C1: every authenticate call that returns a success was made with a token
\* whose signature verifies under the cached key carrying the token's kid,
\* whose iss equals the configured issuer, whose aud equals the configured
\* audience and whose exp is in the future.
C1_SuccessMeansVerified ==
    (Done /\ Succeeded) =>
        /\ BearerJwt
        /\ SignedBy(CacheAfter.keys, SentToken)
        /\ SentToken.iss = env.OIDC_ISSUER
        /\ SentToken.aud = env.OIDC_AUDIENCE
        /\ SentToken.exp # {}
        /\ \A x \in SentToken.exp : x > now

\* what does hold of every success: the signature and the issuer are checked
\* always, the audience and the expiry only when the token carries them
C1_SuccessChecksPresentClaims ==
    (Done /\ Succeeded) =>
        /\ BearerJwt
        /\ SignedBy(CacheAfter.keys, SentToken)
        /\ SentToken.iss = env.OIDC_ISSUER
        /\ SentToken.aud \in {env.OIDC_AUDIENCE, NoClaim}
        /\ \A x \in SentToken.exp : x >= now

\* a success for a token without aud claim
C1_AcceptedWithoutAud ==
    Done /\ Succeeded /\ SentToken.aud = NoClaim /\ SentToken.exp = {ExpFar}

---------------------------------------------------------------------------
(* C2 *)

\* exp is not in the past and nbf is not in the future
TimeValid(tok) == (\A x \in tok.exp : x >= now) /\ (\A n \in tok.nbf : n <= now)

ClaimsValid(tok) ==
    /\ tok.iss = env.OIDC_ISSUER
    /\ tok.aud = env.OIDC_AUDIENCE
    /\ TimeValid(tok)
    /\ Truthy(tok.sub)

\* the call returned (customer, raw token), customer the stored row of the
\* token's sub and the raw token the one sent
ReturnsCustomerOfSub ==
    /\ Succeeded
    /\ last.out.token = {last.hdr[2]}
    /\ \E cu \in last.out.customer : cu.external_id = SentToken.sub /\ cu \in customers

CachedOtherKey ==
    HasKid(CacheBefore.keys, SentToken.kid) /\ ~SignedBy(CacheBefore.keys, SentToken)

---------------------------------------------------------------------------
(* C3 *)

---------------------------------------------------------------------------
(* C4 *)

\* C4: for every token whose exp is in the past at the time of the call,
\* authenticate fails with AuthenticationFailed, also when signature, issuer
\* and audience are all valid.
C4_ExpiredFails ==
    (Done /\ BearerJwt /\ (\E x \in SentToken.exp : x < now)) => Failed

\* a token that is wrong in its exp alone is rejected as expired
C4_ExpiredRejected ==
    /\ Done /\ BearerJwt /\ (\E x \in SentToken.exp : x < now) /\ env = Configured
    /\ SignedBy(CacheAfter.keys, SentToken) /\ SentToken.iss = Issuer
    /\ SentToken.aud = Audience /\ Truthy(SentToken.sub)
    /\ Failed /\ last.out.reason = "Token has expired"

---------------------------------------------------------------------------
(* C5 *)

\* C5 as stated: for every token whose kid matches no key in the provider's
\* JWKS, and for every token carrying a known kid but signed by a key pair
\* other than the one published under that kid, authenticate fails with
\* AuthenticationFailed, also after the forced cache refresh has succeeded.
C5_NotSignedByProviderKeyFails ==
    (Done /\ BearerJwt /\ SentToken.kid # NoClaim /\ ~SignedBy(provider, SentToken))
        => Failed

\* C5 amended: the key set meant is the one the authenticator resolves the
\* kid in, which is its cached set, or the refreshed set after a miss: a
\* token whose kid matches no key of that set, or whose kid matches a key of
\* that set other than the one that signed it, fails, also after a forced
\* refresh that succeeded.
C5_NotSignedByResolvedKeyFails ==
    (Done /\ BearerJwt /\ SentToken.kid # NoClaim /\ ~SignedBy(CacheAfter.keys, SentToken))
        => Failed

\* a token of an unknown kid, otherwise valid, is rejected after the forced
\* refresh succeeded
C5_UnknownKidRejectedAfterRefresh ==
    /\ Done /\ BearerJwt /\ env = Configured /\ ClaimsValid(SentToken)
    /\ SentToken.kid # NoClaim /\ ~HasKid(provider, SentToken.kid)
    /\ ForcedCount = 1 /\ AllFetchesOk /\ CacheAfter.keys = provider
    /\ Failed /\ last.out.reason = "Key ID not found in JWKS"

\* a token of a known kid, signed by another key pair and otherwise valid,
\* is rejected for its signature
C5_ForgedRejected ==
    /\ Done /\ BearerJwt /\ env = Configured /\ ClaimsValid(SentToken)
    /\ HasKid(CacheAfter.keys, SentToken.kid) /\ ~SignedBy(CacheAfter.keys, SentToken)
    /\ HasKid(provider, SentToken.kid) /\ ~SignedBy(provider, SentToken)
    /\ Failed /\ last.out.reason = "Token validation failed"

---------------------------------------------------------------------------
(* C6 *)

\* the first part of the header is the scheme word of this authenticator
SchemeIsBearer == last.hdr # <<>> /\ last.hdr[1].text \in {"Bearer", "bearer", "BEARER"}

\* the call left the caches and the store alone
NothingChanged ==
    /\ class_cache = last.pre.class_cache
    /\ self_cache = last.pre.self_cache
    /\ customers = last.pre.customers

\* C6: when the request has no Authorization header, or a header whose scheme
\* is not "Bearer" (compared case-insensitively), authenticate returns None
\* and raises nothing.
C6_OtherSchemeReturnsNone ==
    (Done /\ ~SchemeIsBearer) => (last.out.kind = "None" /\ NothingChanged)

\* a header of another scheme, with credentials, got None
C6_BasicGotNone ==
    /\ Done /\ Len(last.hdr) = 2 /\ last.hdr[1].text = "Basic"
    /\ last.out.kind = "None"

---------------------------------------------------------------------------
(* C7 *)

\* C7: when the Authorization header has scheme "Bearer" but does not consist
\* of exactly two whitespace-separated parts, authenticate fails with
\* AuthenticationFailed; it neither returns None nor a success.
C7_MalformedBearerFails ==
    (Done /\ SchemeIsBearer /\ Len(last.hdr) # 2)
        => (Failed /\ last.out.reason = "Invalid token header. No credentials provided."
            /\ NothingChanged)

\* a Bearer header of three parts, the second a valid token, failed
C7_ThreePartsFailed ==
    /\ Done /\ SchemeIsBearer /\ Len(last.hdr) = 3 /\ last.hdr[2].kind = "jwt"
    /\ SignedBy(provider, last.hdr[2].tok) /\ ClaimsValid(last.hdr[2].tok)
    /\ Failed

---------------------------------------------------------------------------
(* C8 *)

\* the call got as far as the key lookup of get_key_for_token
ReachedResolver ==
    /\ BearerJwt
    /\ env.OIDC_ISSUER # "" /\ env.OIDC_AUDIENCE # ""
    /\ SentToken.kid # NoClaim

\* the key set the first get_jwks of the call returned, as a set; empty when
\* it raised
FirstKeySet ==
    IF TtlCount = 0 THEN {CacheBefore.keys}
    ELSE IF last.out.log[1].outcome = "ok" THEN {provider}
    ELSE IF last.out.log[1].outcome = "neterr" /\ CacheBefore.keys # None
    THEN {CacheBefore.keys}
    ELSE {}

\* the first lookup of the kid found nothing
Miss == ReachedResolver /\ \E ks \in FirstKeySet : ~HasKid(ks, SentToken.kid)

KeyNotFound == Failed /\ last.out.reason = "Key ID not found in JWKS"

\* a call makes at most one TTL/cold fetch and then at most one forced fetch,
\* and the forced one exactly on a miss, whatever the age of the cache
C8_OneRetryOnMiss ==
    Done =>
        /\ TtlCount <= 1 /\ ForcedCount <= 1 /\ FetchCount = TtlCount + ForcedCount
        /\ (FetchCount = 2 => last.out.log[1].which = "ttl")
        /\ (ForcedCount = 1 <=> Miss)

C8_TwoFetches == Done /\ FetchCount = 2 /\ KeyNotFound

---------------------------------------------------------------------------
(* C9 *)

\* C9: getKeys fetches the JWKS exactly when no set has ever been loaded or
\* when now - lastUpdated > TTL (strictly greater); a call with a known kid
\* made within the TTL of the fetch triggers no fetch, a call made after it
\* triggers one.
C9_FetchIffColdOrExpired ==
    (Done /\ ReachedResolver) =>
        /\ TtlCount = 1 <=>
              (CacheBefore.keys = None \/ now - CacheBefore.last_updated > CACHE_TTL)
        /\ (/\ CacheBefore.keys # None
            /\ now - CacheBefore.last_updated <= CACHE_TTL
            /\ HasKid(CacheBefore.keys, SentToken.kid)) => FetchCount = 0

\* a call exactly TTL seconds after the fetch is served from the cache
C9_ServedFromCacheAtTtl ==
    /\ Done /\ ReachedResolver /\ Succeeded
    /\ CacheBefore.keys # None /\ now - CacheBefore.last_updated = CACHE_TTL
    /\ FetchCount = 0

\* a call later than that fetches again
C9_RefetchedAfterTtl ==
    /\ Done /\ ReachedResolver /\ Succeeded
    /\ CacheBefore.keys # None /\ CacheBefore.last_updated > 0
    /\ now - CacheBefore.last_updated > CACHE_TTL
    /\ FetchCount = 1 /\ CacheAfter.last_updated = now

---------------------------------------------------------------------------
(* C10 *)

\* another instance holds a key set, fetched within the TTL, with the kid
FreshElsewhere ==
    \E j \in Instances \ {last.inst} :
        /\ last.pre.self_cache[j] # <<>>
        /\ now - last.pre.self_cache[j][1].last_updated <= CACHE_TTL
        /\ HasKid(last.pre.self_cache[j][1].keys, SentToken.kid)

\* C10: the key cache is shared by all authenticator instances of the
\* process: a key set fetched by one instance is the set served to every
\* other instance, so a second instance that authenticates a token with a
\* known kid within the TTL performs no JWKS fetch.
C10_CacheSharedByInstances ==
    /\ \A i, j \in Instances : Resolve(View(i)) = Resolve(View(j))
    /\ (Done /\ ReachedResolver /\ FreshElsewhere) => FetchCount = 0

\* the second part alone
C10_NoFetchWhenFreshElsewhere ==
    (Done /\ ReachedResolver /\ FreshElsewhere) => FetchCount = 0

---------------------------------------------------------------------------
(* C11 *)

\* the call failed because a get_jwks of it raised on its fetch
FetchFailure ==
    /\ Failed
    /\ \/ last.out.wrap = "Error fetching JWKS"
       \/ last.out.reason = "Invalid JWKS format"

\* a fetch of the call failed with outcome o
FetchFailedWith(o) ==
    \E n \in 1..Len(last.out.log) : last.out.log[n].outcome = o

\* C11: whenever a refresh attempt inside getKeys fails (network error, HTTP
\* error status, or a response whose keys array is missing or empty), getKeys
\* returns the previously cached key set unchanged if one exists, and fails
\* only if no set has ever been loaded.
C11_FailedRefreshServesCached ==
    (Done /\ ReachedResolver /\ ~AllFetchesOk /\ CacheBefore.keys # None)
        => (~FetchFailure /\ CacheAfter.keys # None)

\* what holds: a refresh that fails with a network error or an HTTP error
\* status serves the cached key set, which stays as it was unless another
\* fetch of the call succeeded
C11_NetworkErrorServesCached ==
    (Done /\ ReachedResolver /\ ~FetchFailedWith("nokeys") /\ CacheBefore.keys # None)
        => /\ ~FetchFailure
           /\ FetchFailedWith("ok") \/ CacheAfter.keys = CacheBefore.keys

\* a stale cache, a response without keys, and the call fails on it
C11_KeylessResponseRaised ==
    /\ Done /\ ReachedResolver /\ CacheBefore.keys # None
    /\ SignedBy(CacheBefore.keys, SentToken) /\ ClaimsValid(SentToken)
    /\ FetchCount = 1 /\ last.out.log[1].outcome = "nokeys"
    /\ Failed /\ last.out.reason = "Invalid JWKS format"

\* a cold cache and a network error: the call fails
C11_ColdFetchErrorRaised ==
    /\ Done /\ ReachedResolver /\ CacheBefore.keys = None
    /\ FetchCount = 1 /\ last.out.log[1].outcome = "neterr"
    /\ Failed /\ last.out.wrap = "Error fetching JWKS"

---------------------------------------------------------------------------
(* C14 *)

\* the header is the scheme word Bearer and one more part
TwoPartBearer == SchemeIsBearer /\ Len(last.hdr) = 2

\* C14: every failure of key fetching, key resolution, signature verification
\* or claim verification during authenticate surfaces as AuthenticationFailed
\* carrying a reason; for a well-formed Bearer header the only outcomes of
\* authenticate are a success pair or AuthenticationFailed, and no other
\* exception type escapes for bad input.
C14_OnlySuccessOrAuthenticationFailed ==
    (Done /\ TwoPartBearer) =>
        /\ last.out.kind \in {"Success", "AuthenticationFailed"}
        /\ Failed => (last.out.wrap # "" \/ last.out.reason # "")

\* what holds: the same for credentials that are UTF-8 text
C14_TextCredentialsSucceedOrFail ==
    (Done /\ TwoPartBearer /\ last.hdr[2].kind # "nonutf8") =>
        /\ last.out.kind \in {"Success", "AuthenticationFailed"}
        /\ Failed => (last.out.wrap # "" \/ last.out.reason # "")

\* credentials that are not UTF-8: the decode error escapes
C14_DecodeErrorEscaped ==
    Done /\ TwoPartBearer /\ last.out.kind = "UnicodeDecodeError"

---------------------------------------------------------------------------
(* C16 *)

ConfigMissing == env.OIDC_ISSUER = "" \/ env.OIDC_AUDIENCE = ""

\* C16: when the issuer or the audience is not configured, the absence is
\* reported as a fatal configuration error distinct from authentication
\* failures: authenticate does not turn it into a per-request
\* AuthenticationFailed.
C16_ConfigErrorIsNotAuthenticationFailed ==
    (Done /\ ConfigMissing) => ~Failed

\* what the code does: every Bearer request with text credentials fails with
\* AuthenticationFailed, and a request of another scheme sees no error at all
C16_ConfigErrorPerRequest ==
    (Done /\ ConfigMissing) =>
        /\ (BearerJwt \/ (TwoPartBearer /\ last.hdr[2].kind = "garbage")) =>
              (Failed /\ last.out.reason = "OIDC configuration incomplete")
        /\ ~SchemeIsBearer => last.out.kind = "None"

\* the audience is not configured and a token valid for the issuer fails
C16_MissingAudienceFailedRequest ==
    /\ Done /\ BearerJwt /\ env.OIDC_AUDIENCE = "" /\ env.OIDC_ISSUER = Issuer
    /\ SignedBy(provider, SentToken) /\ SentToken.iss = Issuer
    /\ Failed /\ last.out.wrap = "Authentication failed: "
    /\ last.out.reason = "OIDC configuration incomplete"

---------------------------------------------------------------------------
(* C19 *)

\* the caches are the ones the call found
CachesUnchanged ==
    class_cache = last.pre.class_cache /\ self_cache = last.pre.self_cache

\* a fetch of the call succeeded and its snapshot is the one cached
SwappedSnapshot == FetchFailedWith("ok") /\ CacheAfter = Cache(provider, now)

\* C19: the cache snapshot (key set together with its lastUpdated timestamp)
\* is never mutated in place: the only step that changes either field is a
\* successful refresh, which swaps in a new snapshot with both fields set
\* together; key resolution, failed refreshes and failed authentications
\* leave both fields unchanged.
C19_SnapshotNeverMutatedInPlace ==
    Done => (CachesUnchanged \/ SwappedSnapshot)

\* what holds: the key set changes only to the key set of a fetch of the call
\* that succeeded
C19_KeysChangeOnlyBySwap ==
    Done => \/ CacheAfter.keys = CacheBefore.keys
            \/ FetchFailedWith("ok") /\ CacheAfter.keys = provider

\* a miss whose forced refresh failed: the keys are the old ones and
\* lastUpdated of the same snapshot has become 0
C19_TimestampResetInPlace ==
    /\ Done /\ Miss /\ FetchCount = 1 /\ last.out.log[1].outcome = "neterr"
    /\ CacheBefore.keys # None /\ CacheBefore.last_updated > 0
    /\ CacheAfter.keys = CacheBefore.keys /\ CacheAfter.last_updated = 0

---------------------------------------------------------------------------
(* C12 *)

\* the rows of the customer the token names
RowsOf(store) == ByExternalId(store, SentToken.sub)

\* the call before this one succeeded with the same header, and the customer
\* is as that call left it
SecondOfTwo ==
    /\ Done /\ BearerJwt
    /\ prev # NoPrev /\ prev.hdr = last.hdr
    /\ ByExternalId(prev.customers, SentToken.sub) = RowsOf(last.pre.customers)

\* the call wrote nothing to the customer store
NoWrite ==
    /\ ~last.out.created /\ last.out.saved = {}
    /\ customers = last.pre.customers

\* C12: calling authenticate twice with the same valid token, with no change
\* to the customer's profile in between, performs no write to the customer
\* store on the second call and leaves the customer record equal to its state
\* after the first call.
C12_SecondCallWritesNothing ==
    SecondOfTwo =>
        /\ NoWrite
        /\ RowsOf(customers) = ByExternalId(prev.customers, SentToken.sub)
        /\ Succeeded => last.out.customer = RowsOf(customers)

\* the first call wrote, the second succeeded and wrote nothing
C12_SecondCallAfterWrite ==
    SecondOfTwo /\ prev.wrote /\ Succeeded /\ NoWrite /\ last.db = "ok"

---------------------------------------------------------------------------
(* C13 *)

\* the value a field has after a success: the claim when it is non-empty and
\* differs from the value stored, else the value stored
Reconciled(stored, claim) ==
    IF claim # NoClaim /\ claim # "" /\ claim # stored THEN claim ELSE stored

\* the call succeeded for a customer that existed
SucceededForExisting == Done /\ BearerJwt /\ Succeeded /\ ~last.out.created

\* C13: when authenticate succeeds for an existing customer, it writes exactly
\* those fields among first name, last name, email and phone whose claim
\* value is non-empty and differs from the stored value, setting each to the
\* claim value; every other field of that customer, including address and
\* external_id, and every other customer record are left unchanged.
C13_WritesExactlyChangedFields ==
    SucceededForExisting =>
        \E old \in RowsOf(last.pre.customers) :
            LET new == [old EXCEPT
                          !.first_name = Reconciled(@, SentToken.given_name),
                          !.last_name = Reconciled(@, SentToken.family_name),
                          !.email = Reconciled(@, SentToken.email),
                          !.phone = Reconciled(@, SentToken.phone_number)]
            IN /\ customers = (last.pre.customers \ {old}) \cup {new}
               /\ last.out.customer = {new}
               /\ last.out.saved =
                     {f \in {"first_name", "last_name", "email", "phone"} :
                         new[f] # old[f]}

\* the customer of the test: a stale first name; the token brings a new
\* given_name and no other profile claim; first_name alone is written and
\* the address stays
C13_OnlyFirstNameUpdated ==
    /\ SucceededForExisting
    /\ Existing \in last.pre.customers
    /\ SentToken.sub = "u0" /\ SentToken.given_name = "Ann"
    /\ SentToken.email = NoClaim
    /\ last.out.saved = {"first_name"}
    /\ customers = (last.pre.customers \ {Existing})
                      \cup {[Existing EXCEPT !.first_name = "Ann"]}
    /\ \A cu \in customers : cu.external_id = "u0" => cu.address = "12 Elm St"

\* a token with an empty family_name claim and a new email: the email alone
\* is written, the stored last name stays
C13_EmptyClaimLeftField ==
    /\ SucceededForExisting /\ SentToken.family_name = "" /\ SentToken.email = NewEmail
    /\ last.out.saved = {"email"}

---------------------------------------------------------------------------
(* C15 *)

\* the database raised in get_or_create, or in the save of changed fields
StoreRaised ==
    /\ Done /\ BearerJwt
    /\ \/ last.db = "get_or_create_error"
       \/ /\ last.db = "save_error"
          /\ \E old \in RowsOf(last.pre.customers) :
                \/ Reconciled(old.first_name, SentToken.given_name) # old.first_name
                \/ Reconciled(old.last_name, SentToken.family_name) # old.last_name
                \/ Reconciled(old.email, SentToken.email) # old.email
                \/ Reconciled(old.phone, SentToken.phone_number) # old.phone

\* C15: when the customer store raises an error during reconciliation
\* (get-or-create or the partial-field save) for a token that was verified
\* successfully, authenticate propagates that error as an unexpected fault;
\* it is not swallowed and not converted into AuthenticationFailed.
C15_StorageErrorPropagates ==
    StoreRaised => last.out.kind \notin {"AuthenticationFailed", "Success", "None"}

\* what the code does: the error becomes an AuthenticationFailed
C15_StorageErrorConverted ==
    StoreRaised =>
        /\ Failed /\ last.out.wrap = "Authentication failed: "
        /\ last.out.reason = "database error"
        /\ customers = last.pre.customers

\* the save of a changed first name raised and the call failed as if the
\* token were bad
C15_SaveErrorFailedRequest ==
    /\ StoreRaised /\ last.db = "save_error" /\ Failed
    /\ last.out.reason = "database error"

---------------------------------------------------------------------------
(* C17 *)

\* the threads whose request to the JWKS endpoint is under way
InFlight == {th \in Threads : calls[th].pc = "fetching"}

\* C17: when several authenticate calls run concurrently and each finds the
\* cache stale, empty or missing its kid, their refreshes are coalesced: at
\* most one JWKS fetch is in flight at any time, and the other calls wait for
\* that fetch's result instead of issuing their own.
C17_AtMostOneFetchInFlight == Cardinality(InFlight) <= 1

\* the same for the calls of one authenticator instance
C17_AtMostOneFetchPerInstance ==
    \A th1, th2 \in InFlight : calls[th1].inst = calls[th2].inst => th1 = th2

\* two calls of one instance, both with a fetch under way for the same kid
C17_TwoFetchesInFlight ==
    /\ InFlight = Threads
    /\ calls["t1"].inst = calls["t2"].inst
    /\ calls["t1"].tok = calls["t2"].tok

---------------------------------------------------------------------------
(* C18 *)

\* key set ks is never-loaded or the keys array of one accepted response
OneResponse(ks) == ks = None \/ ks \in served

\* C18: in every reachable state, also as observed by a reader running
\* concurrently with a refresh, the cached key set is either never-loaded or
\* exactly the complete keys array of one single successful fetch response:
\* it is never a merge of two responses and never a partially written set.
C18_CachedSetIsOneResponse ==
    /\ served \subseteq {JwksOld, JwksNew}
    /\ OneResponse(class_cache.keys)
    /\ \A i \in Instances : OneResponse(Resolve(View(i)).keys)
    /\ \A th \in Threads : OneResponse(calls[th].keys)

\* a reader holds the old set, complete, while the refresh of another call
\* has put the new one in the cache
C18_ReaderHoldsOldSet ==
    \E th \in Threads :
        /\ calls[th].pc = "lookup" /\ calls[th].keys = JwksOld
        /\ Resolve(View(calls[th].inst)).keys = JwksNew
        /\ served = {JwksOld, JwksNew}

---------------------------------------------------------------------------
(* C20 *)

\* thread th has its result, a success
Returned(th) == calls[th].pc = "done" /\ calls[th].kind = "Success"

\* C20: after any interleaving of concurrent authenticate calls, including
\* several first-sight calls for the same subject, the customer store holds
\* at most one customer per external id, and every successful call for
\* subject s returns the customer whose external_id is s; creation is an
\* atomic get-or-create, not a check-then-insert.
C20_OneCustomerPerExternalId ==
    /\ \A cu1, cu2 \in customers : cu1.external_id = cu2.external_id => cu1 = cu2
    /\ \A th \in Threads : Returned(th) =>
          /\ Cardinality(calls[th].row) = 1
          /\ \A cu \in calls[th].row : cu.external_id = calls[th].tok.sub
          /\ Cardinality(ByExternalId(customers, calls[th].tok.sub)) = 1

\* two first-sight calls for one subject both found no row; one inserted it,
\* the insert of the other was refused and it returned the row of the first
C20_RacingCreatorsShareOneRow ==
    /\ Returned("t1") /\ Returned("t2")
    /\ calls["t1"].tok.sub = calls["t2"].tok.sub
    /\ calls["t1"].tok.given_name # calls["t2"].tok.given_name
    /\ calls["t1"].created /\ calls["t2"].conflict /\ ~calls["t2"].created
    /\ Cardinality(ByExternalId(customers, "u1")) = 1

---------------------------------------------------------------------------
(* C24 *)

\* the forced fetch of the call, if it made one, succeeded, and its TTL
\* refresh, if it made one, did not raise
ForcedFetchWorked ==
    \A n \in 1..Len(last.out.log) :
        IF last.out.log[n].which = "forced"
        THEN last.out.log[n].outcome = "ok"
        ELSE last.out.log[n].outcome \in {"ok", "neterr"}

\* the provider has rotated: the kid is not in the cached set and is in the
\* provider's
RotatedIn ==
    /\ ReachedResolver
    /\ CacheBefore.keys # None /\ ~HasKid(CacheBefore.keys, SentToken.kid)
    /\ HasKid(provider, SentToken.kid)

\* C24: if the token's kid is absent from the cached key set but present in
\* the provider's current set (key rotation) and the forced fetch succeeds,
\* then the same authenticate call resolves the key and succeeds for an
\* otherwise valid token, and afterwards the cache holds the provider's new
\* set with lastUpdated set to the time of that call.
C24_RotatedKeyResolvedInSameCall ==
    (Done /\ RotatedIn /\ ForcedFetchWorked
          /\ SignedBy(provider, SentToken) /\ ClaimsValid(SentToken))
        => /\ ReturnsCustomerOfSub
           /\ CacheAfter = Cache(provider, now)

\* a cache younger than the TTL misses the kid; one forced fetch brings the
\* new set and the call succeeds
C24_ResolvedByForcedFetch ==
    /\ Done /\ RotatedIn /\ SignedBy(provider, SentToken) /\ ClaimsValid(SentToken)
    /\ now - CacheBefore.last_updated <= CACHE_TTL
    /\ FetchCount = 1 /\ ForcedCount = 1 /\ AllFetchesOk
    /\ Succeeded /\ CacheAfter = Cache(provider, now)

\* the TTL refresh failed and served the old set, the forced fetch worked
C24_ResolvedAfterFailedTtlRefresh ==
    /\ Done /\ RotatedIn /\ FetchCount = 2 /\ last.out.log[1].outcome = "neterr"
    /\ Succeeded /\ CacheAfter = Cache(provider, now)

---------------------------------------------------------------------------
(* C25 *)

\* C25: a token whose header carries no kid fails with AuthenticationFailed
\* before any key lookup: the call triggers no JWKS fetch, leaves the key
\* cache unchanged and writes nothing to the customer store, also when the
\* cache is empty or stale.
C25_MissingKidFailsBeforeLookup ==
    (Done /\ BearerJwt /\ SentToken.kid = NoClaim)
        => (Failed /\ FetchCount = 0 /\ NothingChanged)

\* no kid and a cache never loaded: the call fails for the kid and fetches
\* nothing
C25_MissingKidOnColdCache ==
    /\ Done /\ BearerJwt /\ SentToken.kid = NoClaim /\ CacheBefore.keys = None
    /\ Failed /\ last.out.reason = "Invalid token header: Token missing key ID (kid)"
    /\ FetchCount = 0 /\ CacheAfter.keys = None

\* the same on a cache older than the TTL
C25_MissingKidOnStaleCache ==
    /\ Done /\ BearerJwt /\ SentToken.kid = NoClaim /\ CacheBefore.keys # None
    /\ now - CacheBefore.last_updated > CACHE_TTL
    /\ Failed /\ FetchCount = 0 /\ CacheAfter = CacheBefore

---------------------------------------------------------------------------
(* C29 *)

\* the call attempted a fetch, none of its fetches succeeded, and a key set
\* was cached
RefreshFailedOnCachedSet ==
    /\ Done /\ ReachedResolver /\ CacheBefore.keys # None
    /\ FetchCount >= 1 /\ ~FetchFailedWith("ok")

\* the next get_jwks of the instance will fetch
StillDue == NeedsFetch(CacheAfter, now)

\* C29: a failed refresh never advances lastUpdated: after a TTL refresh or a
\* forced refresh fails while a key set is cached (the forced refresh having
\* reset lastUpdated to 0), every later getKeys call attempts a fetch again
\* until one succeeds, and the old key set keeps being served in the
\* meantime with no upper bound on its staleness.
C29_FailedRefreshRetriedAndStaleServed ==
    RefreshFailedOnCachedSet =>
        /\ CacheAfter.last_updated <= CacheBefore.last_updated
        /\ CacheAfter.keys = CacheBefore.keys
        /\ StillDue
        /\ ~FetchFailure

\* what holds: the same without the last part, and with it when no response
\* came without keys
C29_FailedRefreshRetried ==
    RefreshFailedOnCachedSet =>
        /\ CacheAfter.last_updated <= CacheBefore.last_updated
        /\ CacheAfter.keys = CacheBefore.keys
        /\ StillDue
        /\ ~FetchFailedWith("nokeys") => ~FetchFailure

\* a set twice as old as the TTL is served after a refresh that failed
C29_StaleSetServed ==
    /\ RefreshFailedOnCachedSet /\ Succeeded
    /\ now - CacheBefore.last_updated >= 2 * CACHE_TTL
    /\ CacheAfter = CacheBefore

\* a refresh of a cached set got a response without keys, and the call failed
C29_KeylessRefreshNotServed ==
    /\ RefreshFailedOnCachedSet /\ FetchFailedWith("nokeys")
    /\ SignedBy(CacheBefore.keys, SentToken) /\ ClaimsValid(SentToken)
    /\ Failed

(***************************************************************************)
(* C27.  The row a first successful call creates.                          *)
(***************************************************************************)

\* what the claim says a created field holds for a claim
StoredForClaim(claim) == IF claim = NoClaim THEN "" ELSE claim

CreatedRow == CHOOSE x \in RowsOf(customers) : TRUE

CreatedNow == Done /\ BearerJwt /\ Succeeded /\ last.out.created

\* C27: when a successful call creates the customer, first name, last name,
\* email and phone are set from given_name, family_name, email and
\* phone_number, and a missing claim is stored as the empty string, never
\* as null.
C27_CreatedFromClaims ==
    CreatedNow =>
        /\ Cardinality(RowsOf(customers)) = 1
        /\ RowsOf(last.pre.customers) = {}
        /\ CreatedRow.first_name = StoredForClaim(SentToken.given_name)
        /\ CreatedRow.last_name = StoredForClaim(SentToken.family_name)
        /\ CreatedRow.email = StoredForClaim(SentToken.email)
        /\ CreatedRow.phone = StoredForClaim(SentToken.phone_number)
        /\ Null \notin {CreatedRow.first_name, CreatedRow.last_name,
                         CreatedRow.email, CreatedRow.phone}
        /\ last.out.customer = {CreatedRow}

\* a customer was created from a token without any of the four claims
C27_CreatedWithoutClaims ==
    /\ CreatedNow
    /\ SentToken.given_name = NoClaim /\ SentToken.family_name = NoClaim
    /\ SentToken.email = NoClaim /\ SentToken.phone_number = NoClaim
    /\ CreatedRow.first_name = "" /\ CreatedRow.phone = ""

\* a customer was created from a token with all four claims
C27_CreatedWithAllClaims ==
    /\ CreatedNow
    /\ SentToken.given_name = "Ann" /\ SentToken.family_name = NewName
    /\ CreatedRow.first_name = "Ann" /\ CreatedRow.email = NewEmail

(***************************************************************************)
(* C28.  The fields of an existing customer follow the non-empty claims.   *)
(***************************************************************************)

\* C28: for an existing customer an absent or empty claim never overwrites
\* a stored value: after any sequence of successful calls each of the four
\* fields equals the most recent non-empty value its claim had, or its
\* original value when no call carried one.
C28_FieldsFollowNonEmptyClaims ==
    last.phase = "idle" => customers = expected

\* the stored first name came from an earlier call and the latest call, with
\* an empty given_name, left it
C28_EmptyClaimAfterUpdate ==
    /\ last.phase = "idle"
    /\ prev # NoPrev
    /\ prev.hdr[2].tok.sub = "u0"
    /\ prev.hdr[2].tok.given_name = ""
    /\ \E x \in customers : x.external_id = "u0" /\ x.first_name = "Ann"

\* no call carried a family name, and the original is still stored
C28_OriginalKept ==
    /\ last.phase = "idle"
    /\ prev # NoPrev
    /\ prev.hdr[2].tok.sub = "u0"
    /\ \E x \in customers : x.external_id = "u0" /\ x.last_name = "Name"
                              /\ x.first_name = "Ann"

(***************************************************************************)
(* C23.  The order of the validation steps.                                *)
(***************************************************************************)

DecodeReasons ==
    {"Token has expired", "Token audience invalid", "Token issuer invalid",
     "Token claims verification failed", "Token validation failed"}

\* the call resolved a key and went on to decode the token with it
KeyResolved ==
    /\ Done /\ ReachedResolver
    /\ Succeeded \/ last.out.reason \in DecodeReasons \cup {"Token missing sub claim"}

BadSignature == ~SignedBy(CacheAfter.keys, SentToken)

WrongIssuer == SentToken.iss # env.OIDC_ISSUER

WrongAudience == SentToken.aud # NoClaim /\ SentToken.aud # env.OIDC_AUDIENCE

\* C23: validation runs key resolution, signature, temporal claims, issuer,
\* audience in this order and reports the reason of the earliest step that
\* fails: bad signature and expired gives the signature reason, expired and
\* wrong audience gives expired, wrong issuer and wrong audience gives the
\* issuer reason.
C23_EarliestFailingStepReported ==
    KeyResolved =>
        /\ BadSignature => last.out.reason = "Token validation failed"
        /\ (~BadSignature /\ ~TimeValid(SentToken)) =>
              last.out.reason \in {"Token has expired", "Token claims verification failed"}
        /\ (~BadSignature /\ TimeValid(SentToken) /\ WrongIssuer) =>
              last.out.reason = "Token issuer invalid"
        /\ (~BadSignature /\ TimeValid(SentToken) /\ ~WrongIssuer /\ WrongAudience) =>
              last.out.reason = "Token audience invalid"

\* the order the calls show: signature, temporal claims, audience, issuer
C23_AudienceCheckedBeforeIssuer ==
    KeyResolved =>
        /\ BadSignature => last.out.reason = "Token validation failed"
        /\ (~BadSignature /\ ~TimeValid(SentToken)) =>
              last.out.reason \in {"Token has expired", "Token claims verification failed"}
        /\ (~BadSignature /\ TimeValid(SentToken) /\ WrongAudience) =>
              last.out.reason = "Token audience invalid"
        /\ (~BadSignature /\ TimeValid(SentToken) /\ ~WrongAudience /\ WrongIssuer) =>
              last.out.reason = "Token issuer invalid"

\* a token with a bad signature that is also expired, rejected for its signature
C23_SignatureBeforeExpiry ==
    /\ KeyResolved /\ BadSignature /\ (\E x \in SentToken.exp : x < now)
    /\ last.out.reason = "Token validation failed"

\* an expired token with a wrong audience, rejected as expired
C23_ExpiryBeforeAudience ==
    /\ KeyResolved /\ ~BadSignature /\ (\E x \in SentToken.exp : x < now)
    /\ WrongAudience /\ last.out.reason = "Token has expired"

\* a token with a wrong issuer and a wrong audience, rejected for its audience
C23_WrongIssuerReportedAsAudience ==
    /\ KeyResolved /\ ~BadSignature /\ TimeValid(SentToken)
    /\ WrongIssuer /\ WrongAudience /\ last.out.reason = "Token audience invalid"

(***************************************************************************)
(* C21.  One entry per key identifier.                                     *)
(***************************************************************************)

\* no two entries of key array ks carry the same kid
DistinctKids(ks) ==
    ks # None => \A m, n \in 1..Len(ks) : ks[m].kid = ks[n].kid => m = n

\* C21: in every reachable state the cached key set contains at most one
\* entry per key identifier, so the key resolved for a kid is unique and
\* does not depend on the order of the entries in the fetched document.
C21_OneEntryPerKid ==
    /\ DistinctKids(class_cache.keys)
    /\ \A i \in Instances : DistinctKids(Resolve(View(i)).keys)

\* what the lookup does: the first entry of the cached array under the kid
\* decides, whatever follows it
C21_FirstEntryDecides ==
    (Done /\ BearerJwt /\ Succeeded) =>
        /\ HasKid(CacheAfter.keys, SentToken.kid)
        /\ FirstKey(CacheAfter.keys, SentToken.kid).pub = SentToken.signer

\* the cache holds two entries under k1, and a token signed by the second
\* listed key pair is rejected
C21_SecondListedRejected ==
    /\ Done /\ BearerJwt /\ CacheAfter.keys = JwksTwins
    /\ SentToken.kid = "k1" /\ SentToken.signer = "P2" /\ ClaimsValid(SentToken)
    /\ Failed /\ last.out.reason = "Token validation failed"

\* the same two entries in the other order: the same token is accepted
C21_FirstListedAccepted ==
    /\ Done /\ BearerJwt /\ CacheAfter.keys = JwksTwinsReversed
    /\ SentToken.kid = "k1" /\ SentToken.signer = "P2" /\ ClaimsValid(SentToken)
    /\ Succeeded

(***************************************************************************)
(* C26.  A token without sub.                                              *)
(***************************************************************************)

NoSub == SentToken.sub = NoClaim \/ SentToken.sub = ""

\* C26: a token that passes the signature, issuer, audience and expiry
\* checks but has an absent or empty sub fails with AuthenticationFailed,
\* and the call creates no customer and updates none.
C26_NoSubFailsWithoutWrite ==
    (Done /\ BearerJwt /\ NoSub) => (Failed /\ customers = last.pre.customers)

\* a token without sub passed every check and failed for the sub
C26_AbsentSubRejected ==
    /\ Done /\ BearerJwt /\ SentToken.sub = NoClaim
    /\ SignedBy(CacheAfter.keys, SentToken) /\ TimeValid(SentToken)
    /\ ~WrongIssuer /\ SentToken.aud = env.OIDC_AUDIENCE
    /\ Failed /\ last.out.reason = "Token missing sub claim"
    /\ customers = last.pre.customers

\* the same for an empty sub
C26_EmptySubRejected ==
    /\ Done /\ BearerJwt /\ SentToken.sub = ""
    /\ SignedBy(CacheAfter.keys, SentToken) /\ TimeValid(SentToken)
    /\ ~WrongIssuer /\ SentToken.aud = env.OIDC_AUDIENCE
    /\ Failed /\ last.out.reason = "Token missing sub claim"
    /\ customers = last.pre.customers

(***************************************************************************)
(* C30.  What a call leaves alone in the customer store.                   *)
(***************************************************************************)

\* every customer on file before the call is on file after it, with the
\* external_id and the address it had, and once
Kept(old) ==
    /\ \E x \in customers : x.external_id = old.external_id /\ x.address = old.address
    /\ Cardinality(ByExternalId(customers, old.external_id))
          = Cardinality(ByExternalId(last.pre.customers, old.external_id))

\* C30: every call that returns None, or that fails at header parsing, key
\* resolution or token validation, leaves the customer store unchanged; and
\* no call, whatever its outcome, deletes a customer or changes an existing
\* customer's external_id or address.
C30_FailuresWriteNothingAndNothingDeleted ==
    Done =>
        /\ ~Succeeded => customers = last.pre.customers
        /\ \A old \in last.pre.customers : Kept(old)

\* a call updated the customer on file and left external_id and address
C30_UpdatedKeptAddress ==
    /\ Done /\ BearerJwt /\ Succeeded /\ last.out.saved # {}
    /\ customers # last.pre.customers
    /\ \E x \in customers : x.external_id = "u0" /\ x.address = "12 Elm St"
                              /\ x.first_name = "Ann"

\* a call failed at token validation with a token of the customer on file
\* whose claims differ from the stored ones
C30_RejectedTokenWroteNothing ==
    /\ Done /\ BearerJwt /\ Failed /\ last.out.reason = "Token audience invalid"
    /\ SentToken.sub = "u0"
    /\ Existing \in customers /\ customers = last.pre.customers

\* a call without opinion, after a customer was created
C30_NoneWroteNothing ==
    /\ Done /\ last.out.kind = "None"
    /\ Cardinality(customers) = 2 /\ customers = last.pre.customers

(***************************************************************************)
(* C22.  Who obtains the notification status of an order.                  *)
(***************************************************************************)

OrderExists == reply.pk \in DOMAIN tables.orders

\* the order belongs to the principal that asks: to the user whose id the
\* external_id of the order's customer spells, or to the customer itself
Owns ==
    /\ OrderExists
    /\ \/ reply.principal.kind = "user"
          /\ tables.customers[tables.orders[reply.pk]] = reply.principal.id
       \/ reply.principal.kind = "customer"
          /\ tables.orders[reply.pk] = reply.principal.id

Answered == reply.phase = "done"

NonStaff == reply.principal.kind # "anonymous" /\ ~reply.principal.is_staff

\* C22: an authenticated non-staff user obtains an order's notification
\* status only if the order belongs to that same user; for an order owned
\* by a different principal the endpoint answers 403, for a missing order
\* 404 and for an unauthenticated request 401, for all assignments of ids
\* to users and customers.
C22_OnlyOwnerObtainsStatus ==
    Answered =>
        /\ reply.principal.kind = "anonymous" => reply.status = "401"
        /\ NonStaff =>
              /\ reply.status = "200" => Owns
              /\ (OrderExists /\ ~Owns) => reply.status = "403"
              /\ ~OrderExists => reply.status = "404"

\* what the view does for a Django user: it compares the id of the user
\* with the pk of the order's customer
C22_UserIdComparedWithCustomerPk ==
    (Answered /\ reply.principal.kind = "user" /\ OrderExists) =>
        (reply.status = "200" <=>
            (reply.principal.is_staff \/ reply.principal.id = tables.orders[reply.pk]))

\* a non-staff user obtained the status of an order of another user's customer
C22_StrangerObtainedStatus ==
    /\ Answered /\ reply.principal.kind = "user" /\ NonStaff
    /\ OrderExists /\ ~Owns /\ reply.status = "200"

\* the user the order belongs to was refused
C22_OwnerRefused ==
    /\ Answered /\ reply.principal.kind = "user" /\ NonStaff
    /\ Owns /\ reply.status = "403"

\* where the ids of user and customer agree, the responses are the claim's
C22_AgreeingIdsAnsweredAsStated ==
    /\ Answered /\ reply.principal.kind = "user" /\ NonStaff
    /\ \A c \in CustomerPks : tables.customers[c] = c
    /\ OrderExists /\ ~Owns /\ reply.status = "403"

\* a request with the Customer of an OIDC token as its user
C22_CustomerPrincipalErred ==
    /\ Answered /\ reply.principal.kind = "customer" /\ reply.status = "500"


====
